---------------------------- MODULE Spec2Model ----------------------------
(***************************************************************************)
(* Model of src-tauri/src/lib.rs: the comment stripper, the minifier, the  *)
(* literal shield they share, and the two commands that drive them         *)
(* (process_code, process_files_with_progress).                            *)
(*                                                                         *)
(* A text is a sequence of bytes.  A byte is written as a one-character    *)
(* string; "NUL" is the byte 0, "BQ" the back-quote 0x60, and "C2", "C3",  *)
(* "82", "83", "A9" are the bytes 0xC2, 0xC3, 0x82, 0x83, 0xA9 (U+00E9 in  *)
(* UTF-8 is <<"C3", "A9">>).  FILL stands for a run of MAX_PROCESS_SIZE - 2 bytes   *)
(* 'a': every pattern and scanner of the program treats such a run like a  *)
(* single 'a', and only the length of the text tells them apart.           *)
(***************************************************************************)
EXTENDS Integers, Sequences, FiniteSets, TLC

VARIABLES
    code,                   \* the text argument of the call in flight
    extension,              \* its extension argument (a sequence of bytes)
    mode,                   \* the mode tag of a command
    op,                     \* which entry point has run: "none" before any
    out,                    \* what it returned
    files,                  \* the records of the batch
    pc,                     \* position of the batch command
    results,                \* Vec<ProcessedFile> built by the batch loop
    emitted,                \* payloads handed to app_handle.emit, in order
    emitResults,            \* what each emit returned ("Ok" / "Err"), ignored
    processed_files_count,
    processed_bytes,
    tokens_saved_total,
    total_files_count,
    total_bytes

vars == <<code, extension, mode, op, out, files, pc, results, emitted,
          emitResults, processed_files_count, processed_bytes,
          tokens_saved_total, total_files_count, total_bytes>>

textVars == <<code, extension, mode, op, out>>
batchVars == <<files, pc, results, emitted, emitResults,
               processed_files_count, processed_bytes, tokens_saved_total,
               total_files_count, total_bytes>>

-----------------------------------------------------------------------------
(* Constants of the program *)

MAX_PROCESS_SIZE == 500 * 1024

PLACEHOLDER_PREFIX == <<"NUL", "S", "T", "R">>

PLACEHOLDER_SUFFIX == <<"E", "N", "D", "NUL">>

NONE == "None"

\* The byte 0x60, the back-quote that opens a template literal.
BACKTICK == "BQ"

\* The run of MAX_PROCESS_SIZE - 2 bytes 'a'.
FILL == "a..a"

\* Number of bytes a symbol of a text stands for.
Width(b) == IF b = FILL THEN MAX_PROCESS_SIZE - 2 ELSE 1

RECURSIVE ByteLen(_)
\* str::len(): the length of the text in bytes.
ByteLen(t) == IF t = <<>> THEN 0 ELSE Width(Head(t)) + ByteLen(Tail(t))

-----------------------------------------------------------------------------
(* Scanning helpers: positions are 1-based, an end position is exclusive *)

StartsAt(t, i, p) ==
    /\ i + Len(p) - 1 <= Len(t)
    /\ \A k \in 1..Len(p) : t[i + k - 1] = p[k]

RECURSIVE SkipWhile(_, _, _)
\* [S]* greedy from i: the end of the run of bytes in S.
SkipWhile(t, i, S) ==
    IF i <= Len(t) /\ t[i] \in S THEN SkipWhile(t, i + 1, S) ELSE i

RECURSIVE SkipUntil(_, _, _)
\* [^S]* greedy from i: the first byte in S, or the end of the text.
SkipUntil(t, i, S) ==
    IF i <= Len(t) /\ t[i] \notin S THEN SkipUntil(t, i + 1, S) ELSE i

RECURSIVE BackFind(_, _, _, _)
\* Backtracking of a greedy class run that ended at k and began at lo: the
\* longest run after which the literal close matches; 0 when there is none.
BackFind(t, k, lo, close) ==
    IF k < lo THEN 0
    ELSE IF StartsAt(t, k, close) THEN k + Len(close)
    ELSE BackFind(t, k - 1, lo, close)

AtLineStart(t, i) == i = 1 \/ t[i - 1] = "\n"

AtLineEnd(t, i) == i > Len(t) \/ t[i] = "\n"

HSpace == {" ", "\t"}

\* char::is_whitespace / \s on the bytes of the model.
WhiteSpace == {" ", "\t", "\n", "\r", "\f"}

-----------------------------------------------------------------------------
(* The regular expressions.  Find(re, t, i) is the exclusive end of the     *)
(* leftmost-first match of re that starts at i, or 0 when none starts there *)

\* prefix[^\n]* for any of the prefixes in starts
LineComment(t, i, starts) ==
    IF \E p \in starts : StartsAt(t, i, p) THEN SkipUntil(t, i, {"\n"}) ELSE 0

\* open[^x]*close
Delimited(t, i, open, x, close) ==
    IF StartsAt(t, i, open)
    THEN BackFind(t, SkipUntil(t, i + Len(open), {x}), i + Len(open), close)
    ELSE 0

RECURSIVE CMultiTail(_, _)
\* (?:[^/*][^*]*\*+)*/ from j, the byte after a maximal run of '*'
CMultiTail(t, j) ==
    IF j > Len(t) THEN 0
    ELSE IF t[j] = "/" THEN j + 1
    ELSE LET s == SkipUntil(t, j + 1, {"*"})
         IN  IF s > Len(t) THEN 0 ELSE CMultiTail(t, SkipWhile(t, s, {"*"}))

\* /\*[^*]*\*+(?:[^/*][^*]*\*+)*/
c_style_multi(t, i) ==
    IF StartsAt(t, i, <<"/", "*">>)
    THEN LET s == SkipUntil(t, i + 2, {"*"})
         IN  IF s > Len(t) THEN 0 ELSE CMultiTail(t, SkipWhile(t, s, {"*"}))
    ELSE 0

\* a|b: the match of the first alternative that matches
FirstOf(a, b) == IF a # 0 THEN a ELSE b

\* qqq[^q]*(?:qq)?[^q]*qqq
DocQuoted(t, i, q) ==
    IF StartsAt(t, i, <<q, q, q>>)
    THEN LET p == SkipUntil(t, i + 3, {q})
             withPair == IF StartsAt(t, p, <<q, q>>)
                         THEN BackFind(t, SkipUntil(t, p + 2, {q}), p + 2, <<q, q, q>>)
                         ELSE 0
         IN  IF withPair # 0 THEN withPair ELSE BackFind(t, p, i + 3, <<q, q, q>>)
    ELSE 0

\* \"\"\"...\"\"\"|'''...'''
py_docstring(t, i) == FirstOf(DocQuoted(t, i, "\""), DocQuoted(t, i, "'"))

\* (?m)^[ \t]*(?:REM|rem|::)[^\n]*
BatchComment(t, i) ==
    IF AtLineStart(t, i)
    THEN LET k == SkipWhile(t, i, HSpace)
         IN  IF \/ StartsAt(t, k, <<"R", "E", "M">>)
                \/ StartsAt(t, k, <<"r", "e", "m">>)
                \/ StartsAt(t, k, <<":", ":">>)
             THEN SkipUntil(t, k, {"\n"}) ELSE 0
    ELSE 0

\* c_style_multi\/ | <!--[^>]*-->
VueMulti(t, i) ==
    FirstOf(c_style_multi(t, i),
            Delimited(t, i, <<"<", "!", "-", "-">>, ">", <<"-", "-", ">">>))

\* \n{n,}
NewlineRun(t, i, n) ==
    LET k == SkipWhile(t, i, {"\n"}) IN IF k - i >= n THEN k ELSE 0

\* (?m)[ \t]+$
TRAILING_WS(t, i) ==
    LET k == SkipWhile(t, i, HSpace)
    IN  IF k > i /\ AtLineEnd(t, k) THEN k ELSE 0

\* (?m)^[ \t]+
LEADING_WS(t, i) ==
    LET k == SkipWhile(t, i, HSpace)
    IN  IF AtLineStart(t, i) /\ k > i THEN k ELSE 0

\* >\s+<
ANGLE_WHITESPACE(t, i) ==
    IF i <= Len(t) /\ t[i] = ">"
    THEN LET k == SkipWhile(t, i + 1, WhiteSpace)
         IN  IF k > i + 1 /\ k <= Len(t) /\ t[k] = "<" THEN k + 1 ELSE 0
    ELSE 0

\* /\*[^*]*\*+(?:[^/*][^*]*\*+)*/|//[^\n]*
JSON_COMMENT(t, i) ==
    FirstOf(c_style_multi(t, i), LineComment(t, i, {<<"/", "/">>}))

Find(re, t, i) ==
    CASE re = "c_style_single"    -> LineComment(t, i, {<<"/", "/">>})
      [] re = "c_style_multi"     -> c_style_multi(t, i)
      [] re = "hash_single"       -> LineComment(t, i, {<<"#">>})
      [] re = "py_docstring"      -> py_docstring(t, i)
      [] re = "rb_multi"          -> Delimited(t, i, <<"=", "b", "e", "g", "i", "n">>,
                                               "=", <<"=", "e", "n", "d">>)
      [] re = "ini_single"        -> LineComment(t, i, {<<";">>, <<"#">>})
      [] re = "html_multi"        -> Delimited(t, i, <<"<", "!", "-", "-">>,
                                               ">", <<"-", "-", ">">>)
      [] re = "vue_multi"         -> VueMulti(t, i)
      [] re = "dash_single"       -> LineComment(t, i, {<<"-", "-">>})
      [] re = "php_single"        -> LineComment(t, i, {<<"/", "/">>, <<"#">>})
      [] re = "lisp_single"       -> LineComment(t, i, {<<";">>})
      [] re = "ps_multi"          -> Delimited(t, i, <<"<", "#">>, "#", <<"#", ">">>)
      [] re = "bat_single"        -> BatchComment(t, i)
      [] re = "TRIPLE_NEWLINES"   -> NewlineRun(t, i, 3)
      [] re = "MULTIPLE_NEWLINES" -> NewlineRun(t, i, 2)
      [] re = "TRAILING_WS"       -> TRAILING_WS(t, i)
      [] re = "LEADING_WS"        -> LEADING_WS(t, i)
      [] re = "ANGLE_WHITESPACE"  -> ANGLE_WHITESPACE(t, i)
      [] re = "JSON_COMMENT"      -> JSON_COMMENT(t, i)

RECURSIVE ReplaceFrom(_, _, _, _, _)
\* e is the end of the match at i, or 0: the match is replaced, or the byte kept
ReplaceStep(re, t, rep, i, acc, e) ==
    IF e # 0 THEN ReplaceFrom(re, t, rep, e, acc \o rep)
    ELSE ReplaceFrom(re, t, rep, i + 1, Append(acc, t[i]))

ReplaceFrom(re, t, rep, i, acc) ==
    IF i > Len(t) THEN acc ELSE ReplaceStep(re, t, rep, i, acc, Find(re, t, i))

\* Regex::replace_all: every non-overlapping match, left to right.
replace_all(re, t, rep) == ReplaceFrom(re, t, rep, 1, <<>>)

RECURSIVE StrReplaceFrom(_, _, _, _, _)
StrReplaceFrom(t, pat, rep, i, acc) ==
    IF i > Len(t) THEN acc
    ELSE IF StartsAt(t, i, pat)
         THEN StrReplaceFrom(t, pat, rep, i + Len(pat), acc \o rep)
         ELSE StrReplaceFrom(t, pat, rep, i + 1, Append(acc, t[i]))

\* str::replace of a non-empty literal.
StrReplace(t, pat, rep) == StrReplaceFrom(t, pat, rep, 1, <<>>)

\* str::trim.
Trim(t) ==
    LET s == SkipWhile(t, 1, WhiteSpace)
        e == CHOOSE k \in 0..Len(t) :
                 /\ \A j \in (k + 1)..Len(t) : t[j] \in WhiteSpace
                 /\ (k = 0 \/ t[k] \notin WhiteSpace)
    IN  IF s > e THEN <<>> ELSE SubSeq(t, s, e)

RECURSIVE JoinWords(_, _, _)
JoinWords(t, i, acc) ==
    LET s == SkipWhile(t, i, WhiteSpace)
        e == SkipUntil(t, s, WhiteSpace)
    IN  IF s > Len(t) THEN acc
        ELSE JoinWords(t, e, (IF acc = <<>> THEN acc ELSE Append(acc, " "))
                                \o SubSeq(t, s, e - 1))

\* split_whitespace().collect::<Vec<_>>().join(" ")
SplitJoin(t) == JoinWords(t, 1, <<>>)

-----------------------------------------------------------------------------
(* The literal shield *)

RECURSIVE Decimal(_)
\* usize::to_string
Decimal(n) ==
    LET d == <<"0", "1", "2", "3", "4", "5", "6", "7", "8", "9">>
    IN  IF n < 10 THEN <<d[n + 1]>> ELSE Append(Decimal(n \div 10), d[(n % 10) + 1])

Placeholder(idx) == PLACEHOLDER_PREFIX \o Decimal(idx) \o PLACEHOLDER_SUFFIX

\* result.push(other as char): the byte taken as the code point U+00xx and
\* pushed in UTF-8, two bytes when it is 0x80 or above.
PushAsChar(b) ==
    CASE b = "C2" -> <<"C3", "82">>
      [] b = "C3" -> <<"C3", "83">>
      [] b = "82" -> <<"C2", "82">>
      [] b = "83" -> <<"C2", "83">>
      [] b = "A9" -> <<"C2", "A9">>
      [] OTHER    -> <<b>>

RECURSIVE InterpEnd(_, _, _)
\* the inner loop over a ${ ... } interpolation
InterpEnd(b, i, depth) ==
    IF i <= Len(b) /\ depth > 0
    THEN InterpEnd(b, i + 1, IF b[i] = "{" THEN depth + 1
                             ELSE IF b[i] = "}" THEN depth - 1 ELSE depth)
    ELSE i

RECURSIVE TemplateEnd(_, _)
\* the loop of the back-quote arm: where i stands when it ends
TemplateEnd(b, i) ==
    IF i > Len(b) THEN i
    ELSE IF b[i] = "\\" /\ i + 1 <= Len(b) THEN TemplateEnd(b, i + 2)
    ELSE IF b[i] = BACKTICK THEN i + 1
    ELSE IF b[i] = "$" /\ i + 1 <= Len(b) /\ b[i + 1] = "{"
         THEN TemplateEnd(b, InterpEnd(b, i + 2, 1))
    ELSE TemplateEnd(b, i + 1)

RECURSIVE QuoteEnd(_, _, _)
\* the loop of the double-quote and single-quote arms
QuoteEnd(b, i, q) ==
    IF i > Len(b) THEN i
    ELSE IF b[i] = "\\" /\ i + 1 <= Len(b) THEN QuoteEnd(b, i + 2, q)
    ELSE IF b[i] = q THEN i + 1
    ELSE IF b[i] = "\n" THEN i
    ELSE QuoteEnd(b, i + 1, q)

\* where the literal that opens at i ends
SpanEnd(b, i) ==
    IF b[i] = BACKTICK THEN TemplateEnd(b, i + 1) ELSE QuoteEnd(b, i + 1, b[i])

RECURSIVE ProtectLoop(_, _, _, _)
ProtectLoop(b, i, result, strings) ==
    IF i > Len(b) THEN [result |-> result, strings |-> strings]
    ELSE IF b[i] \in {BACKTICK, "\"", "'"}
         THEN LET e == SpanEnd(b, i)
              IN  ProtectLoop(b, e, result \o Placeholder(Len(strings)),
                              Append(strings, SubSeq(b, i, e - 1)))
         ELSE ProtectLoop(b, i + 1, result \o PushAsChar(b[i]), strings)

protect_strings(c) == ProtectLoop(c, 1, <<>>, <<>>)

RECURSIVE RestoreFrom(_, _, _)
RestoreFrom(result, strings, idx) ==
    IF idx >= Len(strings) THEN result
    ELSE RestoreFrom(StrReplace(result, Placeholder(idx), strings[idx + 1]),
                     strings, idx + 1)

restore_strings(c, strings) ==
    IF strings = <<>> THEN c ELSE RestoreFrom(c, strings, 0)

-----------------------------------------------------------------------------
(* The grammar table *)

build(single, multi, docstring, preserve) ==
    [single |-> single, multi |-> multi, docstring |-> docstring,
     preserve_strings |-> preserve]

COMMENT_PATTERNS ==
    [e \in {"js", "mjs", "cjs", "ts", "mts", "tsx", "jsx"} |->
        build("c_style_single", "c_style_multi", NONE, TRUE)]
    @@ [e \in {"c", "h", "cpp", "hpp", "cc", "cs", "java", "go", "rs", "swift",
               "kt", "kts", "dart", "scala", "groovy"} |->
        build("c_style_single", "c_style_multi", NONE, TRUE)]
    @@ [e \in {"py", "pyw"} |-> build("hash_single", NONE, "py_docstring", TRUE)]
    @@ ("pyx" :> build("hash_single", NONE, NONE, TRUE))
    @@ ("rb" :> build("hash_single", "rb_multi", NONE, TRUE))
    @@ [e \in {"sh", "bash", "zsh", "fish", "r", "yaml", "yml", "toml", "conf"} |->
        build("hash_single", NONE, NONE, FALSE)]
    @@ ("ini" :> build("ini_single", NONE, NONE, FALSE))
    @@ [e \in {"pl", "pm"} |-> build("hash_single", NONE, NONE, TRUE)]
    @@ [e \in {"html", "htm", "xml", "svg", "xhtml"} |->
        build(NONE, "html_multi", NONE, FALSE)]
    @@ [e \in {"vue", "svelte"} |-> build("c_style_single", "vue_multi", NONE, TRUE)]
    @@ ("css" :> build(NONE, "c_style_multi", NONE, FALSE))
    @@ ("scss" :> build("c_style_single", "c_style_multi", NONE, FALSE))
    @@ ("sass" :> build("c_style_single", NONE, NONE, FALSE))
    @@ ("less" :> build("c_style_single", "c_style_multi", NONE, FALSE))
    @@ ("sql" :> build("dash_single", "c_style_multi", NONE, FALSE))
    @@ ("lua" :> build("dash_single", NONE, NONE, FALSE))
    @@ ("php" :> build("php_single", "c_style_multi", NONE, TRUE))
    @@ ("hs" :> build("dash_single", NONE, NONE, FALSE))
    @@ [e \in {"clj", "cljs", "lisp", "el", "scm"} |->
        build("lisp_single", NONE, NONE, FALSE)]
    @@ [e \in {"ps1", "psm1"} |-> build("hash_single", "ps_multi", NONE, FALSE)]
    @@ [e \in {"bat", "cmd"} |-> build("bat_single", NONE, NONE, FALSE)]
    @@ ("jsonc" :> build("c_style_single", "c_style_multi", NONE, FALSE))

UpperCase == <<"A", "B", "C", "D", "E", "F", "G", "H", "I", "J", "K", "L", "M",
               "N", "O", "P", "Q", "R", "S", "T", "U", "V", "W", "X", "Y", "Z">>

LowerCase == <<"a", "b", "c", "d", "e", "f", "g", "h", "i", "j", "k", "l", "m",
               "n", "o", "p", "q", "r", "s", "t", "u", "v", "w", "x", "y", "z">>

\* char::to_lowercase on the bytes of the model
LowerByte(b) ==
    IF \E k \in 1..26 : UpperCase[k] = b
    THEN LowerCase[CHOOSE k \in 1..26 : UpperCase[k] = b]
    ELSE b

\* extension.trim_start_matches('.').to_lowercase()
NormalizeExt(e) ==
    LET s == SkipWhile(e, 1, {"."})
    IN  [k \in 1..(Len(e) - s + 1) |-> LowerByte(e[s + k - 1])]

RECURSIVE Str(_)
\* the bytes of an extension as the string that keys the table
Str(e) == IF e = <<>> THEN "" ELSE Head(e) \o Str(Tail(e))

-----------------------------------------------------------------------------
(* The comment stripper *)

ApplyPattern(re, t) == IF re = NONE THEN t ELSE replace_all(re, t, <<>>)

\* lines 304-312: docstring, then block, then single-line
DeleteComments(patterns, working) ==
    ApplyPattern(patterns.single,
        ApplyPattern(patterns.multi,
            ApplyPattern(patterns.docstring, working)))

\* lines 314-316
RestoreIfAny(working, strings) ==
    IF strings # <<>> THEN restore_strings(working, strings) ELSE working

\* lines 318-319
CollapseAndStrip(working) ==
    replace_all("TRAILING_WS",
                replace_all("TRIPLE_NEWLINES", working, <<"\n", "\n">>), <<>>)

\* lines 304-321, from what the shield returned
StripShielded(patterns, shield) ==
    CollapseAndStrip(
        RestoreIfAny(DeleteComments(patterns, shield.result), shield.strings))

\* lines 295-321: the pipeline for a text that passed the guards
StripWith(patterns, c) ==
    StripShielded(patterns,
                  IF patterns.preserve_strings THEN protect_strings(c)
                  ELSE [result |-> c, strings |-> <<>>])

\* the ceiling itself is refused
SizeGuard_CeilingExcluded(c) == ByteLen(c) < 2 \/ ByteLen(c) >= MAX_PROCESS_SIZE

SizeGuard(c) == ByteLen(c) < 2 \/ ByteLen(c) > MAX_PROCESS_SIZE

\* the clean-up passes run even when no grammar is found
StripFor_AlwaysCleanUp(c, ext) ==
    IF ext \notin DOMAIN COMMENT_PATTERNS THEN CollapseAndStrip(c)
    ELSE StripWith(COMMENT_PATTERNS[ext], c)

\* lines 291-321, for the normalized extension
StripFor(c, ext) ==
    IF ext \notin DOMAIN COMMENT_PATTERNS THEN c
    ELSE StripWith(COMMENT_PATTERNS[ext], c)

remove_comments(c, e) ==
    IF SizeGuard(c) THEN c ELSE StripFor(c, Str(NormalizeExt(e)))

-----------------------------------------------------------------------------
(* serde_json, on the texts of the model: of JSON's values these can spell  *)
(* strings and arrays (no digit, brace, colon or literal name is among      *)
(* their bytes), so a value is [t |-> "s", v |-> bytes] or                  *)
(* [t |-> "a", v |-> values].                                               *)

JsonWS == {" ", "\t", "\n", "\r"}

\* the bytes below 0x20, which a JSON string must escape
ControlBytes == {"NUL", "\t", "\n", "\r", "\f"}

JsonFail == [ok |-> FALSE, next |-> 0, val |-> [t |-> "none", v |-> <<>>]]

JsonOk(val, next) == [ok |-> TRUE, next |-> next, val |-> val]

Unescape(b) ==
    CASE b = "\"" -> "\""
      [] b = "\\" -> "\\"
      [] b = "/"  -> "/"
      [] b = "n"  -> "\n"
      [] b = "t"  -> "\t"
      [] b = "r"  -> "\r"
      [] b = "f"  -> "\f"
      [] OTHER    -> NONE

RECURSIVE ParseString(_, _, _)
\* the bytes of a string whose opening quote is before i
ParseString(t, i, acc) ==
    IF i > Len(t) THEN JsonFail
    ELSE IF t[i] = "\"" THEN JsonOk([t |-> "s", v |-> acc], i + 1)
    ELSE IF t[i] = "\\"
         THEN IF i + 1 > Len(t) \/ Unescape(t[i + 1]) = NONE THEN JsonFail
              ELSE ParseString(t, i + 2, Append(acc, Unescape(t[i + 1])))
    ELSE IF t[i] \in ControlBytes THEN JsonFail
    ELSE ParseString(t, i + 1, Append(acc, t[i]))

RECURSIVE ParseValue(_, _)
RECURSIVE ParseArray(_, _, _)

\* the elements of an array: i is where the next element must start
ParseArray(t, i, acc) ==
    LET el == ParseValue(t, i)
        s  == SkipWhile(t, el.next, JsonWS)
    IN  IF ~el.ok \/ s > Len(t) THEN JsonFail
        ELSE IF t[s] = "," THEN ParseArray(t, s + 1, Append(acc, el.val))
        ELSE IF t[s] = "]" THEN JsonOk([t |-> "a", v |-> Append(acc, el.val)], s + 1)
        ELSE JsonFail

ParseValue(t, i) ==
    LET s == SkipWhile(t, i, JsonWS)
    IN  IF s > Len(t) THEN JsonFail
        ELSE IF t[s] = "\"" THEN ParseString(t, s + 1, <<>>)
        ELSE IF t[s] = "["
             THEN LET e == SkipWhile(t, s + 1, JsonWS)
                  IN  IF e <= Len(t) /\ t[e] = "]"
                      THEN JsonOk([t |-> "a", v |-> <<>>], e + 1)
                      ELSE ParseArray(t, s + 1, <<>>)
        ELSE JsonFail

\* serde_json::from_str::<Value>: one value, then only white space
from_str(t) ==
    LET r == ParseValue(t, 1)
    IN  IF r.ok /\ SkipWhile(t, r.next, JsonWS) > Len(t) THEN r ELSE JsonFail

EscapeByte(b) ==
    CASE b = "\"" -> <<"\\", "\"">>
      [] b = "\\" -> <<"\\", "\\">>
      [] b = "\n" -> <<"\\", "n">>
      [] b = "\t" -> <<"\\", "t">>
      [] b = "\r" -> <<"\\", "r">>
      [] b = "\f" -> <<"\\", "f">>
      [] b = "NUL" -> <<"\\", "u", "0", "0", "0", "0">>
      [] OTHER    -> <<b>>

RECURSIVE EscapeAll(_)
EscapeAll(t) == IF t = <<>> THEN <<>> ELSE EscapeByte(Head(t)) \o EscapeAll(Tail(t))

RECURSIVE to_string(_)
RECURSIVE JoinValues(_)

JoinValues(vs) ==
    IF vs = <<>> THEN <<>>
    ELSE IF Len(vs) = 1 THEN to_string(vs[1])
    ELSE to_string(vs[1]) \o <<",">> \o JoinValues(Tail(vs))

\* serde_json::to_string: the compact form
to_string(val) ==
    IF val.t = "s" THEN <<"\"">> \o EscapeAll(val.v) \o <<"\"">>
    ELSE <<"[">> \o JoinValues(val.v) \o <<"]">>

-----------------------------------------------------------------------------
(* The minifier *)

WsSignificant == {"py", "pyw", "yaml", "yml", "coffee", "sass", "pug", "haml"}

\* lines 333-335
MinifyWsSignificant(r) ==
    Trim(replace_all("TRIPLE_NEWLINES", replace_all("TRAILING_WS", r, <<>>),
                     <<"\n", "\n">>))

\* lines 340-345: the compact form of what parsed, or the fallback
CompactOrCollapse(parsed, r) ==
    IF parsed.ok THEN to_string(parsed.val) ELSE SplitJoin(r)

\* lines 339-345
MinifyJson(r) ==
    CompactOrCollapse(from_str(replace_all("JSON_COMMENT", r, <<>>)), r)

\* lines 349-351
MinifyMarkup(r) == Trim(SplitJoin(replace_all("ANGLE_WHITESPACE", r, <<">", "<">>)))

\* lines 357-360
CollapseGeneric(t) ==
    Trim(replace_all("LEADING_WS",
             replace_all("MULTIPLE_NEWLINES",
                 replace_all("TRAILING_WS", t, <<>>), <<"\n">>), <<" ">>))

\* lines 355-362, from what the shield returned
MinifyShielded(shield) ==
    restore_strings(CollapseGeneric(shield.result), shield.strings)

\* lines 354-362
MinifyGeneric(r) == MinifyShielded(protect_strings(r))

\* lines 332-362: the branch of the normalized extension, on the stripped text
MinifyFor(ext, r) ==
    IF ext \in WsSignificant THEN MinifyWsSignificant(r)
    ELSE IF ext \in {"json", "jsonc"} THEN MinifyJson(r)
    ELSE IF ext \in {"html", "htm", "xml", "svg"} THEN MinifyMarkup(r)
    ELSE MinifyGeneric(r)

minify_code(c, e) ==
    IF SizeGuard(c) THEN c
    ELSE MinifyFor(Str(NormalizeExt(e)), remove_comments(c, NormalizeExt(e)))

-----------------------------------------------------------------------------
(* The commands *)

\* the tags are matched whatever their case
from_str_mode_AnyCase(m) ==
    CASE m \in {"remove-comments", "REMOVE-COMMENTS"} -> "RemoveComments"
      [] m \in {"minify", "Minify"}                   -> "Minify"
      [] OTHER                                        -> "Raw"

\* ProcessingMode::from_str
from_str_mode(m) ==
    CASE m = "remove-comments" -> "RemoveComments"
      [] m = "minify"          -> "Minify"
      [] OTHER                 -> "Raw"

\* the match on the processing mode, in process_code and in the batch loop
Apply(processing_mode, c, e) ==
    CASE processing_mode = "Raw"            -> c
      [] processing_mode = "RemoveComments" -> remove_comments(c, e)
      [] processing_mode = "Minify"         -> minify_code(c, e)

Dispatch(m, c, e) == Apply(from_str_mode(m), c, e)

\* Path::new(name).extension().and_then(|e| e.to_str()).unwrap_or("txt") for
\* a name that is a single path component: the bytes after the last dot,
\* unless there is no dot or the only dot is the first byte.
FileExtension(name) ==
    LET dots == {k \in 1..Len(name) : name[k] = "."}
        last == CHOOSE k \in dots : \A j \in dots : j <= k
    IN  IF name \in {<<>>, <<".">>, <<".", ".">>} \/ dots = {} \/ last = 1
        THEN <<"t", "x", "t">>
        ELSE SubSeq(name, last + 1, Len(name))

RECURSIVE SumLen(_)
\* files.iter().map(|f| f.content.len() as u64).sum()
SumLen(fs) == IF fs = <<>> THEN 0 ELSE ByteLen(Head(fs).content) + SumLen(Tail(fs))

-----------------------------------------------------------------------------
(* Bounds and the inputs drawn within them *)

\* most fragments a text is put together from
MaxFrags == 4

\* most records in a batch
MaxFiles == 3

RECURSIVE Concat(_)
Concat(ss) == IF ss = <<>> THEN <<>> ELSE Head(ss) \o Concat(Tail(ss))

\* every text made of at most MaxFrags of the fragments
TextsOf(frags) ==
    {Concat(ss) : ss \in UNION {[1..n -> frags] : n \in 0..MaxFrags}}

JS == <<"j", "s">>
PY == <<"p", "y">>

\* comment markers and line structure, for the C-style grammars
CommentFrags == {<<"/", "*">>, <<"*", "/">>, <<"/", "/">>, <<"\n">>, <<" ">>,
                 <<"a">>}

\* quotes among comment markers, for the grammars that shield literals
LiteralFrags == {<<"'">>, <<BACKTICK>>, <<"/", "*">>, <<"*", "/">>, <<"/", "/">>,
                 <<"\n">>, <<" ">>}

\* triple quotes, hash comments and indentation, for Python and its kin
PythonFrags == {<<"\"", "\"", "\"">>, <<"'", "'", "'">>, <<"#">>, <<"a">>,
                <<"\n">>, <<" ">>}

\* JSON with comments
JsonFrags == {<<"\"">>, <<"/", "*">>, <<"*", "/">>, <<"/", "/">>, <<" ", " ">>,
              <<"[">>, <<"]">>}

\* texts around the two ends of the size window
SizeFrags == {<<FILL>>, <<" ">>, <<"a">>, <<"/", "/">>, <<"\n">>}

\* text of the placeholder form, a quote and a two-byte character, for the
\* shield and its undoing
ShieldFrags == {Placeholder(0), <<"'">>, <<"C3", "A9">>, <<"a">>}

Scenarios ==
    { [frags |-> ShieldFrags,
       exts  |-> {JS}],
      [frags |-> CommentFrags,
       exts  |-> {JS, <<"p", "h", "p">>, <<"c", "s", "s">>}],
      [frags |-> LiteralFrags,
       exts  |-> {JS}],
      [frags |-> PythonFrags,
       exts  |-> {PY, <<".", "P", "Y", "W">>, <<"y", "a", "m", "l">>, <<"p", "u", "g">>}],
      [frags |-> JsonFrags,
       exts  |-> {<<"j", "s", "o", "n">>, <<"j", "s", "o", "n", "c">>}],
      [frags |-> SizeFrags,
       exts  |-> {JS, <<".", ".", "J", "s">>, <<"z", "z", "z">>, <<"t", "x", "t">>,
                  <<>>}] }

ModeTags == {"raw", "remove-comments", "minify", "", "Minify", "REMOVE-COMMENTS",
             "strip"}

\* the records a batch is drawn from
FilePool ==
    { [id |-> "f1", name |-> <<"a", ".", "j", "s">>,
       content |-> <<"C3", "A9", " ", "\n">>],
      [id |-> "f2", name |-> <<"b", ".", "P", "Y">>,
       content |-> <<" ", "a", " ", "#", "c", "\n">>],
      [id |-> "f3", name |-> <<".", "e", "n", "v">>,
       content |-> <<"/", "/", " ", "\n">>],
      [id |-> "f4", name |-> <<"d", ".", "j", "s", "o", "n">>,
       content |-> <<"[", " ", "\"", "\t", "\"", " ", "]">>],
      [id |-> "f5", name |-> <<"e">>, content |-> <<>>] }

Batches == UNION {[1..n -> FilePool] : n \in 0..MaxFiles}

CommandTexts == {f.content : f \in FilePool}

CommandExts == {FileExtension(f.name) : f \in FilePool}

-----------------------------------------------------------------------------
(* The state machine of the commands *)

BatchIdle ==
    /\ files = <<>>
    /\ pc = "idle"
    /\ results = <<>>
    /\ emitted = <<>>
    /\ emitResults = <<>>
    /\ processed_files_count = 0
    /\ processed_bytes = 0
    /\ tokens_saved_total = 0
    /\ total_files_count = 0
    /\ total_bytes = 0

Init ==
    /\ code = <<>>
    /\ extension = <<>>
    /\ mode = ""
    /\ op = "none"
    /\ out = <<>>
    /\ BatchIdle

\* the command process_code: lines 380-392
ProcessCode ==
    /\ pc = "idle"
    /\ op = "none"
    /\ \E c \in CommandTexts, m \in ModeTags, e \in CommandExts :
          /\ code' = c
          /\ mode' = m
          /\ extension' = e
          /\ out' = Dispatch(m, c, e)
    /\ op' = "process_code"
    /\ UNCHANGED batchVars

\* the command process_files_with_progress up to the spawn: lines 636-656
StartBatch ==
    /\ pc = "idle"
    /\ op = "none"
    /\ \E fs \in Batches, m \in ModeTags :
          /\ files' = fs
          /\ mode' = m
          /\ total_files_count' = Len(fs)
          /\ total_bytes' = SumLen(fs)
    /\ pc' = "loop"
    /\ results' = <<>>
    /\ processed_files_count' = 0
    /\ processed_bytes' = 0
    /\ tokens_saved_total' = 0
    /\ op' = "process_files_with_progress"
    /\ UNCHANGED <<code, extension, out, emitted, emitResults>>

\* the count is stepped after the event is built
Account_CountAfterEmit(file, original_len, processed_content, saved) ==
    /\ processed_files_count' = processed_files_count + 1
    /\ processed_bytes' = processed_bytes + original_len
    /\ tokens_saved_total' = tokens_saved_total + saved
    /\ emitted' = Append(emitted,
          [current_file_name |-> file.name,
           processed_files_count |-> processed_files_count,
           total_files_count |-> total_files_count,
           processed_bytes |-> processed_bytes + original_len,
           total_bytes |-> total_bytes,
           tokens_saved |-> tokens_saved_total + saved])
    /\ \E r \in {"Ok", "Err"} : emitResults' = Append(emitResults, r)
    /\ results' = Append(results, [id |-> file.id, content |-> processed_content])

\* a failed emit makes the record keep its input content
Account_RawOnEmitError(file, original_len, processed_content, saved) ==
    /\ processed_files_count' = processed_files_count + 1
    /\ processed_bytes' = processed_bytes + original_len
    /\ tokens_saved_total' = tokens_saved_total + saved
    /\ emitted' = Append(emitted,
          [current_file_name |-> file.name,
           processed_files_count |-> processed_files_count + 1,
           total_files_count |-> total_files_count,
           processed_bytes |-> processed_bytes + original_len,
           total_bytes |-> total_bytes,
           tokens_saved |-> tokens_saved_total + saved])
    /\ \E r \in {"Ok", "Err"} :
          /\ emitResults' = Append(emitResults, r)
          /\ results' = Append(results,
                [id |-> file.id,
                 content |-> IF r = "Err" THEN file.content
                             ELSE processed_content])

\* lines 674-717: the counters, the progress event and the result of a file
\* whose processed content is known
Account(file, original_len, processed_content, saved) ==
    /\ processed_files_count' = processed_files_count + 1
    /\ processed_bytes' = processed_bytes + original_len
    /\ tokens_saved_total' = tokens_saved_total + saved
    /\ emitted' = Append(emitted,
          [current_file_name |-> file.name,
           processed_files_count |-> processed_files_count + 1,
           total_files_count |-> total_files_count,
           processed_bytes |-> processed_bytes + original_len,
           total_bytes |-> total_bytes,
           tokens_saved |-> tokens_saved_total + saved])
    /\ \E r \in {"Ok", "Err"} : emitResults' = Append(emitResults, r)
    /\ results' = Append(results, [id |-> file.id, content |-> processed_content])

\* progress is counted in output bytes
Process_OutputBytes(file, processed_content) ==
    Account(file, ByteLen(processed_content), processed_content,
            ByteLen(file.content) - ByteLen(processed_content))

\* lines 659-675: a file is processed under the mode of the batch
Process(file, processed_content) ==
    Account(file, ByteLen(file.content), processed_content,
            ByteLen(file.content) - ByteLen(processed_content))

\* lines 660-672 for every tag and record of the model: what the match on
\* the mode gives for the record, worked out once
ProcessedContent ==
    [m \in ModeTags, f \in FilePool |->
        Dispatch(m, f.content, FileExtension(f.name))]

\* one turn of the loop over the files: lines 658-721
ProcessFile ==
    /\ pc = "loop"
    /\ Len(results) < Len(files)
    /\ Process(files[Len(results) + 1],
               ProcessedContent[mode, files[Len(results) + 1]])
    /\ UNCHANGED <<code, extension, mode, op, out, files, pc,
                   total_files_count, total_bytes>>

\* the loop is over and the task returns Ok(results): line 723
FinishBatch ==
    /\ pc = "loop"
    /\ Len(results) = Len(files)
    /\ pc' = "done"
    /\ UNCHANGED <<code, extension, mode, op, out, files, results, emitted,
                   emitResults, processed_files_count, processed_bytes,
                   tokens_saved_total, total_files_count, total_bytes>>

Next == ProcessCode \/ StartBatch \/ ProcessFile \/ FinishBatch

Spec == Init /\ [][Next]_vars

\* The loop runs inside one spawn_blocking task that nothing cancels and
\* that waits on nothing but a 10 ms sleep per file: a turn that can be
\* taken is taken, and so is the return.
LiveSpec == Spec /\ WF_vars(ProcessFile) /\ WF_vars(FinishBatch)

-----------------------------------------------------------------------------
(* The text functions on their own, on the texts of the scenarios *)

TextInit ==
    /\ \E sc \in Scenarios :
          /\ code \in TextsOf(sc.frags)
          /\ extension \in sc.exts
    /\ mode = ""
    /\ op = "none"
    /\ out = <<>>
    /\ BatchIdle

CallRemoveComments ==
    /\ op = "none"
    /\ op' = "remove_comments"
    /\ out' = remove_comments(code, extension)
    /\ UNCHANGED <<code, extension, mode>>
    /\ UNCHANGED batchVars

CallMinifyCode ==
    /\ op = "none"
    /\ op' = "minify_code"
    /\ out' = minify_code(code, extension)
    /\ UNCHANGED <<code, extension, mode>>
    /\ UNCHANGED batchVars

TextNext == CallRemoveComments \/ CallMinifyCode

TextSpec == TextInit /\ [][TextNext]_vars

-----------------------------------------------------------------------------
(* What the claims speak of *)

\* p occurs in t as a run of consecutive bytes
Occurs(p, t) == \E i \in 1..(Len(t) - Len(p) + 1) : StartsAt(t, i, p)

ExtKey == Str(NormalizeExt(extension))

Recognized == ExtKey \in DOMAIN COMMENT_PATTERNS

ProtectsLiterals == Recognized /\ COMMENT_PATTERNS[ExtKey].preserve_strings

\* a span that ends with the quote that opened it
Closed(span) == Len(span) >= 2 /\ span[Len(span)] = span[1]

\* no comment pattern of the grammar matches in the shielded text
NoComment(patterns, working) == DeleteComments(patterns, working) = working

\* C1: for an extension whose grammar protects literals, every span that
\* protect_strings identifies in the input occurs byte for byte in the output
\* of remove_comments, a template span that crosses lines included.  Stated
\* where nothing but the literal itself is at stake: for the closed spans of
\* a text in which no comment pattern matches.
C1_LiteralSafety ==
    (/\ op = "remove_comments"
     /\ ProtectsLiterals
     /\ NoComment(COMMENT_PATTERNS[ExtKey], protect_strings(code).result))
        => \A k \in 1..Len(protect_strings(code).strings) :
               Closed(protect_strings(code).strings[k])
                   => Occurs(protect_strings(code).strings[k], out)

\* C2: for a recognized extension a second pass of remove_comments over the
\* output of the first changes nothing.
C2_Idempotent ==
    (op = "remove_comments" /\ Recognized)
        => remove_comments(out, extension) = out

\* C3: the progress events of a batch carry the counts 1, 2, ..., N in this
\* order, the k-th event names the k-th record, and a finished batch has
\* emitted one event per record.
C3_BatchOrdering ==
    /\ \A k \in 1..Len(emitted) :
          /\ emitted[k].processed_files_count = k
          /\ k <= Len(files)
          /\ emitted[k].current_file_name = files[k].name
    /\ pc = "done" => Len(emitted) = Len(files)

\* a finished batch of several records with different names
C3_Witness ==
    /\ pc = "done"
    /\ Len(emitted) >= 3
    /\ emitted[1].current_file_name # emitted[2].current_file_name
    /\ emitted[3].processed_files_count = 3

RECURSIVE JsonStringEnd(_, _)
\* the end of the JSON string whose opening quote is before i
JsonStringEnd(t, i) ==
    IF i > Len(t) THEN i
    ELSE IF t[i] = "\\" THEN JsonStringEnd(t, i + 2)
    ELSE IF t[i] = "\"" THEN i + 1
    ELSE JsonStringEnd(t, i + 1)

RECURSIVE BlockEnd(_, _)
\* the end of the block comment whose opening marker is before j, 0 if unclosed
BlockEnd(t, j) ==
    IF j + 1 > Len(t) THEN 0
    ELSE IF t[j] = "*" /\ t[j + 1] = "/" THEN j + 2
    ELSE BlockEnd(t, j + 1)

RECURSIVE StripRefFrom(_, _, _)
StripRefFrom(t, i, acc) ==
    IF i > Len(t) THEN acc
    ELSE IF t[i] = "\""
         THEN StripRefFrom(t, JsonStringEnd(t, i + 1),
                           acc \o SubSeq(t, i, JsonStringEnd(t, i + 1) - 1))
    ELSE IF StartsAt(t, i, <<"/", "/">>)
         THEN StripRefFrom(t, SkipUntil(t, i, {"\n"}), acc)
    ELSE IF StartsAt(t, i, <<"/", "*">>) /\ BlockEnd(t, i + 2) # 0
         THEN StripRefFrom(t, BlockEnd(t, i + 2), acc)
    ELSE StripRefFrom(t, i + 1, Append(acc, t[i]))

\* the source with its comments stripped: the // and /* */ comments that
\* stand outside the JSON strings are removed, the strings are kept whole
JsoncStripRef(t) == StripRefFrom(t, 1, <<>>)

RECURSIVE DeepEq(_, _)
\* two JSON values are the same value
DeepEq(a, b) ==
    /\ a.t = b.t
    /\ Len(a.v) = Len(b.v)
    /\ IF a.t = "a" THEN \A k \in 1..Len(a.v) : DeepEq(a.v[k], b.v[k])
       ELSE a.v = b.v

\* C4: for well-formed JSON or JSONC, comments allowed, minify_code returns a
\* text that parses to the value the source parses to once its comments are
\* stripped, also when a string holds //, /* or a run of spaces.
C4_JsonRoundTrip ==
    (/\ op = "minify_code"
     /\ ExtKey \in {"json", "jsonc"}
     /\ from_str(JsoncStripRef(code)).ok)
        => /\ from_str(out).ok
           /\ DeepEq(from_str(out).val, from_str(JsoncStripRef(code)).val)

\* C5: a text shorter than 2 bytes or longer than 512000 bytes comes back
\* unchanged from remove_comments and from minify_code, whatever the
\* extension; a text of 2 to 512000 bytes, both ends included, is not stopped
\* by the guard and gets the processing of its extension.
C5_SizeGuard ==
    /\ (op \in {"remove_comments", "minify_code"}
        /\ (ByteLen(code) < 2 \/ ByteLen(code) > 512000))
          => out = code
    /\ (op = "remove_comments" /\ ByteLen(code) >= 2 /\ ByteLen(code) <= 512000)
          => out = StripFor(code, ExtKey)
    /\ (op = "minify_code" /\ ByteLen(code) >= 2 /\ ByteLen(code) <= 512000)
          => out = MinifyFor(ExtKey, StripFor(code, ExtKey))

\* a text of 512001 bytes that the stripper would have changed comes back
\* whole
C5_Witness ==
    /\ op = "remove_comments"
    /\ ByteLen(code) = 512001
    /\ Recognized
    /\ out = code
    /\ StripFor(code, ExtKey) # code

\* a text of exactly 512000 bytes is changed
C5_WitnessAtCeiling ==
    /\ op = "remove_comments"
    /\ ByteLen(code) = 512000
    /\ out # code

\* C6: for an extension that is no key of the grammar table once its leading
\* dots are stripped and it is lowercased ("zzz", "txt", "json" are none),
\* remove_comments returns the text unchanged: no blank line is collapsed and
\* no trailing white space stripped.
C6_UnknownExtension ==
    /\ {"zzz", "txt", "json"} \cap DOMAIN COMMENT_PATTERNS = {}
    /\ (op = "remove_comments" /\ ~Recognized) => out = code

\* an unknown extension, and a text the clean-up passes would have changed
C6_Witness ==
    /\ op = "remove_comments"
    /\ ExtKey \in {"zzz", "txt", "json"}
    /\ ~SizeGuard(code)
    /\ out = code
    /\ CollapseAndStrip(code) # code

Unrecognized(m) == m \notin {"remove-comments", "minify"}

\* C7: every mode tag but "remove-comments" and "minify" ("raw", the empty
\* tag and other spellings of the two included) selects Raw, and under Raw
\* process_code and every record of a batch return the content unchanged.
C7_ModeDispatch ==
    /\ \A m \in ModeTags : Unrecognized(m) => from_str_mode(m) = "Raw"
    /\ (op = "process_code" /\ Unrecognized(mode)) => out = code
    /\ (op = "process_files_with_progress" /\ Unrecognized(mode))
          => \A k \in 1..Len(results) : results[k].content = files[k].content

\* a batch under the tag "Minify", whose first record minify_code would
\* have changed, is returned whole
C7_Witness ==
    /\ op = "process_files_with_progress"
    /\ mode = "Minify"
    /\ pc = "done"
    /\ Len(results) >= 2
    /\ results[1].content = files[1].content
    /\ minify_code(files[1].content, FileExtension(files[1].name))
           # files[1].content

RECURSIVE SumTo(_, _)
\* input bytes of the first k records
SumTo(fs, k) == IF k = 0 THEN 0 ELSE SumTo(fs, k - 1) + ByteLen(fs[k].content)

RECURSIVE SavedTo(_, _, _)
\* input bytes less output bytes, over the first k records
SavedTo(fs, rs, k) ==
    IF k = 0 THEN 0
    ELSE SavedTo(fs, rs, k - 1)
             + (ByteLen(fs[k].content) - ByteLen(rs[k].content))

\* C8: the k-th progress event carries the input bytes of the first k
\* records, the totals of the whole batch, and the signed sum of input less
\* output bytes of the first k records; so processed_bytes never decreases,
\* the last event has processed_bytes = total_bytes, and a Raw batch reports
\* 0 saved throughout.
C8_BatchCounters ==
    /\ \A k \in 1..Len(emitted) :
          /\ emitted[k].processed_bytes = SumTo(files, k)
          /\ emitted[k].total_bytes = SumTo(files, Len(files))
          /\ emitted[k].total_files_count = Len(files)
          /\ emitted[k].tokens_saved = SavedTo(files, results, k)
          /\ k > 1 => emitted[k].processed_bytes >= emitted[k - 1].processed_bytes
          /\ Unrecognized(mode) => emitted[k].tokens_saved = 0
    /\ (pc = "done" /\ emitted # <<>>)
          => emitted[Len(emitted)].processed_bytes
                 = emitted[Len(emitted)].total_bytes

\* a finished batch whose saved bytes went below zero and came back up
C8_Witness ==
    /\ pc = "done"
    /\ Len(emitted) >= 2
    /\ emitted[1].tokens_saved < 0
    /\ emitted[2].tokens_saved > 0
    /\ emitted[2].processed_bytes > emitted[1].processed_bytes

\* C9: for py and pyw, remove_comments deletes every match of the docstring
\* pattern: no triple-quoted block is left in the output.
C9_DocstringStripped ==
    (op = "remove_comments" /\ ExtKey \in {"py", "pyw"} /\ ~SizeGuard(code))
        => \A i \in 1..Len(out) : Find("py_docstring", out, i) = 0

\* a line with a byte that is no white space
NonBlank(line) == \E k \in 1..Len(line) : line[k] \notin WhiteSpace

RECURSIVE Indents(_, _)
\* the leading horizontal white space of each non-blank line from i on
Indents(t, i) ==
    IF i > Len(t) THEN <<>>
    ELSE IF NonBlank(SubSeq(t, i, SkipUntil(t, i, {"\n"}) - 1))
         THEN <<SubSeq(t, i, SkipWhile(t, i, HSpace) - 1)>>
                  \o Indents(t, SkipUntil(t, i, {"\n"}) + 1)
         ELSE Indents(t, SkipUntil(t, i, {"\n"}) + 1)

\* C10: for the indentation-sensitive extensions, every non-blank line that
\* minify_code returns has the leading horizontal white space of the line it
\* comes from in the comment-stripped text, the first line included.
C10_IndentationKept ==
    (op = "minify_code" /\ ExtKey \in WsSignificant)
        => Indents(out, 1) = Indents(remove_comments(code, extension), 1)

\* C11: restore_strings undoes protect_strings on every text the shield is
\* run on: a text that holds text of the placeholder form, in or out of a
\* literal, and a text with bytes above 0x7F outside every literal come back
\* byte for byte.
C11_ExactRestoration ==
    (op = "remove_comments" /\ ProtectsLiterals /\ ~SizeGuard(code))
        => restore_strings(protect_strings(code).result,
                           protect_strings(code).strings) = code

\* the grammar has the C-style block pattern and the C-style line pattern
BlockAndLine ==
    /\ Recognized
    /\ COMMENT_PATTERNS[ExtKey].multi = "c_style_multi"
    /\ COMMENT_PATTERNS[ExtKey].single = "c_style_single"

\* the text opens with a block comment that is closed
OpensWithBlock(t) == StartsAt(t, 1, <<"/", "*">>) /\ BlockEnd(t, 3) > 0

\* the text after the block comment that t opens with
AfterBlock(t) == SubSeq(t, BlockEnd(t, 3), Len(t))

\* C12: for a grammar with a block and a line pattern, a block comment at
\* the head of the text is deleted from its /* to its first */ whatever it
\* holds (a line marker, a quote, an apostrophe): remove_comments returns
\* what the stripping gives for the text after the comment.
C12_BlockCommentWhole ==
    (/\ op = "remove_comments"
     /\ BlockAndLine
     /\ ~SizeGuard(code)
     /\ OpensWithBlock(code))
        => out = StripFor(AfterBlock(code), ExtKey)

\* the first n results are those of the first n records, in order, each with
\* the content its record has under the mode of the batch
ResultsOfFirst(n) ==
    /\ Len(results) = n
    /\ \A k \in 1..n :
          /\ results[k].id = files[k].id
          /\ results[k].content
                 = Dispatch(mode, files[k].content, FileExtension(files[k].name))

\* one event per record taken, whatever emit answered, and the list is
\* handed back only when it is whole
BatchWhole ==
    /\ Len(emitted) = Len(results)
    /\ Len(emitResults) = Len(results)
    /\ Len(results) <= Len(files)
    /\ ResultsOfFirst(Len(results))
    /\ pc = "done" => Len(results) = Len(files)

\* C13: a batch loop started on N records ends, after exactly N progress
\* events, with exactly N results, the i-th with the id of the i-th record
\* and its content under the requested mode; a failed emit aborts nothing,
\* skips no record and changes no result, and no partial list is returned.
C13_RunsToCompletion ==
    /\ [](op = "process_files_with_progress" => BatchWhole)
    /\ ((pc = "loop") ~> (pc = "done"))

\* a finished batch of two or more records, one of whose events failed to be
\* emitted, with a first result that differs from its input
C13_Witness ==
    /\ pc = "done"
    /\ Len(files) >= 2
    /\ Len(results) = Len(files)
    /\ \E k \in 1..Len(emitResults) : emitResults[k] = "Err"
    /\ results[1].content # files[1].content

=============================================================================
